---- MODULE Spec2Model ----
(***************************************************************************)
(* The dependency-aware task execution engine of the autonomous task       *)
(* planner: executePlan / executeTask (server/executionEngine.ts) and       *)
(* executePlanWithStreaming / executeTaskWithRetry (executionEngineV2),     *)
(* with getReadyTasks, the failed-dependency propagation of the main loop   *)
(* and the stream of StreamUpdate events handed to the caller's callback.   *)
(***************************************************************************)
EXTENDS Integers, Sequences, FiniteSets, TLC

\* ---------------------------------------------------------------- bounds
\* Largest number of tasks in a plan.
MaxTasks == 3
\* Largest number of dependencies one task lists.
MaxDeps == 1
\* Largest maxRetries handed to executeTaskWithRetry when it is called on its own.
MaxAttempts == 3
\* Number of calls of the router's procedures for the one execution.
MaxCalls == 2
\* Number of users that call the router.
MaxUsers == 2

\* ------------------------------------------------------ program constants
\* executeTaskWithRetry(..., maxRetries: number = 2)
DefaultMaxRetries == 2
\* const maxIterations = plan.tasks.length * 2
IterationFactor == 2
\* README: "Failed tasks are retried up to 2 times"
DocumentedRetries == 2
\* executionId: 0 on the updates of executeTask / executeTaskWithRetry
PlaceholderId == 0

VARIABLES
    engine,            \* "v1" executePlan, "v2" executePlanWithStreaming,
                       \* "retry" executeTaskWithRetry called on its own
    streamCallback,    \* whether the caller passed a streamCallback
    plan,              \* plan.tasks: a sequence of PlanTask
    maxRetries,        \* the maxRetries parameter of executeTaskWithRetry
    fate,              \* what the capability does per step and what the final
                       \* analysis does: a fixed outcome, or "any"
    pc,                \* where the run is
    completedTaskIds,  \* Set<string>
    failedTaskIds,     \* Set<string>
    taskResults,       \* keys of the Map taskId -> output
    taskStatuses,      \* v1 only: taskId -> "succeeded" | "failed"
    iterations,        \* v2 only: the loop counter
    readyTasks,        \* the rest of the ready list the for-loop still has to execute
    attempt,           \* attempts of the task being executed that have ended
    lastError,         \* lastError of executeTaskWithRetry
    result,            \* what executeTask / executeTaskWithRetry returned last
    events,            \* the StreamUpdates the caller's callback received, in order
    returned,          \* what the run returned to its caller
    attempts,          \* history: taskId -> number of attempts made for it
    failures,          \* history: taskId -> number of its attempts that failed
    cancelRequested,   \* the client has called stopStreaming during the run
    history,           \* history: the outcomes of the attempts of the task being executed
    dispatched,        \* history: taskId -> the rounds whose ready list held it
    round,             \* history: number of rounds that dispatched a ready list
    oddPass,           \* history: whether the while loop has begun an odd number of passes
    skipped,           \* history: ids resolved by the optional branch of the propagation
    propagated,        \* history: ids resolved by the non-optional branch of the propagation
    execution,         \* the row of the executions table: userId and status
    handlers,          \* the calls of the router's procedures, one record per call
    planRuns,          \* history: number of calls of executePlanWithStreaming by the router
    firstRun           \* history: how an earlier run of the same plan by executePlan ended

\* The inputs of a run, which no action changes.
inputs == <<engine, streamCallback, plan, maxRetries, fate>>

\* The state of the router and of the executions table.
routerVars == <<execution, handlers, planRuns>>

\* The state of one run of the engine.
engineVars == <<inputs, pc, completedTaskIds, failedTaskIds, taskResults, taskStatuses,
                iterations, readyTasks, attempt, lastError, result, events, returned,
                attempts, failures, history, dispatched, round, oddPass, skipped,
                propagated, cancelRequested, firstRun>>

vars == <<engineVars, routerVars>>

\* ------------------------------------------------------------------ plans
\* A task of an n-task plan may name the ids 1..n and the id n+1, which no task has.
DepIds(n) == 1..(n + 1)

DepChoices(n) == {d \in SUBSET DepIds(n) : Cardinality(d) <= MaxDeps}

\* PlanTask: id, dependencies, optional (description and tools are never read
\* by the scheduling).  Task i carries the id i; the last task may instead
\* repeat the id of task 1 (a plan with a duplicate id).  task.optional is read
\* only for a task with a failed dependency, so it is left false for the tasks
\* that list no dependency.
PlanTask(n) == [id : 1..n, dependencies : DepChoices(n), optional : BOOLEAN]

PlansOfLength(n) ==
    {p \in [1..n -> PlanTask(n)] :
        \A i \in 1..n : /\ p[i].id = i \/ (i = n /\ p[i].id = 1)
                        /\ p[i].dependencies = {} => ~p[i].optional}

Plans == UNION {PlansOfLength(n) : n \in 1..MaxTasks}

AllIds == 1..(MaxTasks + 1)

PlanIds(p) == {p[i].id : i \in 1..Len(p)}

\* ----------------------------------------------------------------- events
\* The executionId parameter of the run.
ExecutionId == 1

\* if (streamCallback) streamCallback(update)
Emit(cb, evs, e) == IF cb THEN Append(evs, e) ELSE evs

\* An update the engine itself builds: it carries the run's executionId.
TaskEvent(type, taskId) ==
    [type |-> type, taskId |-> taskId, executionId |-> ExecutionId]

RunEvent(type) == [type |-> type, executionId |-> ExecutionId]

\* An update executeTask / executeTaskWithRetry builds: executionId: 0.
StepUpdate(type, taskId) ==
    [type |-> type, taskId |-> taskId, executionId |-> PlaceholderId]

\* Mutant: the callback handed to the step runner passes the update on as it is.
Wrapper_KeepsPlaceholder(update) == update

\* The callback the engine hands to the step runner sets
\* update.executionId = executionId; a caller of executeTaskWithRetry on its
\* own hands in its callback as it is.
Wrapper(update) ==
    IF engine \in {"v1", "v2"}
    THEN [update EXCEPT !.executionId = ExecutionId]
    ELSE update

\* An update of the step runner on its way to the caller's callback.
Deliver(cb, evs, update) == Emit(cb, evs, Wrapper(update))

\* ----------------------------------------------------------------- errors
NullError == [kind |-> "null", attempt |-> 0]

ErrorOf(kind, a) == [kind |-> kind, attempt |-> a]

\* ---------------------------------------------------------- getReadyTasks
\* Mutant: the dependencies are not looked at.
allDepsCompleted_Ignored(task, completed) == TRUE

\* Mutant: some() instead of every(): one completed dependency is enough
\* and a task without dependencies is never ready.
allDepsCompleted_Some(task, completed) ==
    \E dep \in task.dependencies : dep \in completed

\* task.dependencies.every((dep) => completedTaskIds.has(dep))
allDepsCompleted(task, completed) == \A dep \in task.dependencies : dep \in completed

\* Mutant: only the completed set is looked at, a failed task stays ready.
IsReady_IgnoresFailed(task, completed, failed) ==
    /\ ~(task.id \in completed)
    /\ allDepsCompleted(task, completed)

\* Mutant: the scan does not skip the tasks that are already resolved.
IsReady_IgnoresResolved(task, completed, failed) ==
    allDepsCompleted(task, completed)

\* The test of the for-loop body of getReadyTasks for one task.
IsReady(task, completed, failed) ==
    /\ ~(task.id \in completed \/ task.id \in failed)
    /\ allDepsCompleted(task, completed)

IdsOf(tasks) == [i \in 1..Len(tasks) |-> tasks[i].id]

\* Mutant: the scan stops at the first ready task, one id per round.
getReadyTasks_FirstOnly(tasks, completed, failed) ==
    LET Test(t) == IsReady(t, completed, failed)
        all == IdsOf(SelectSeq(tasks, Test))
    IN  IF all = <<>> THEN all ELSE <<Head(all)>>

\* getReadyTasks(tasks, completedTaskIds, failedTaskIds): the ids, in plan order.
getReadyTasks(tasks, completed, failed) ==
    LET Test(t) == IsReady(t, completed, failed)
    IN  IdsOf(SelectSeq(tasks, Test))

\* plan.tasks.filter((t) => !completedTaskIds.has(t.id) && !failedTaskIds.has(t.id))
unresolvedTasks(tasks, completed, failed) ==
    LET Test(t) == ~(t.id \in completed) /\ ~(t.id \in failed)
    IN  SelectSeq(tasks, Test)

\* plan.tasks.find((t) => t.id === taskId)!: the first task with the id.
FindTask(tasks, taskId) ==
    tasks[CHOOSE i \in 1..Len(tasks) :
            /\ tasks[i].id = taskId
            /\ \A j \in 1..(i - 1) : tasks[j].id # taskId]

\* ------------------------------------------------------------ propagation
\* Mutant: a failed dependency is never seen, the propagation resolves nothing.
hasMissingDeps_Never(task, failed) == FALSE

\* task.dependencies.some((dep) => failedTaskIds.has(dep))
hasMissingDeps(task, failed) == \E dep \in task.dependencies : dep \in failed

\* Mutant: the optional flag is not looked at, every blocked task is skipped.
PropagateOne_AlwaysSkips(task, st, cb) ==
    IF hasMissingDeps(task, st.failed)
    THEN [st EXCEPT !.completed = @ \cup {task.id},
                    !.skipped = @ \cup {task.id},
                    !.events = Emit(cb, @, TaskEvent("task_complete", task.id))]
    ELSE st

\* Mutant: the optional flag is not looked at, every blocked task fails.
PropagateOne_AlwaysFails(task, st, cb) ==
    IF hasMissingDeps(task, st.failed)
    THEN [st EXCEPT !.failed = @ \cup {task.id},
                    !.propagated = @ \cup {task.id},
                    !.events = Emit(cb, @, TaskEvent("task_error", task.id))]
    ELSE st

\* One pass of the body of `for (const task of unresolvedTasks)` for one task;
\* st carries the sets and the event list the loop mutates.
PropagateOne(task, st, cb) ==
    IF hasMissingDeps(task, st.failed)
    THEN IF task.optional
         THEN [st EXCEPT !.completed = @ \cup {task.id},
                         !.skipped = @ \cup {task.id},
                         !.events = Emit(cb, @, TaskEvent("task_complete", task.id))]
         ELSE [st EXCEPT !.failed = @ \cup {task.id},
                         !.propagated = @ \cup {task.id},
                         !.events = Emit(cb, @, TaskEvent("task_error", task.id))]
    ELSE st

RECURSIVE PropagateFrom(_, _, _, _)
\* The for-loop over the unresolved tasks, in order, from index i on.
PropagateFrom(unresolved, i, st, cb) ==
    IF i > Len(unresolved)
    THEN st
    ELSE PropagateFrom(unresolved, i + 1, PropagateOne(unresolved[i], st, cb), cb)

\* ----------------------------------------------------------- initial state
\* Nothing is fixed: every attempt and the final analysis can end any way.
AnyFate == [steps |-> [t \in AllIds |-> "any"], analysis |-> "any"]

\* No earlier run of the plan.
NoRun == [none |-> TRUE]

\* The engine is run on its own: the row says executing, no procedure is called.
NoRouter ==
    /\ execution = [userId |-> 1, status |-> "executing"]
    /\ handlers = <<>>
    /\ planRuns = 0

\* The state of a run before its first step.
InitEngineRun ==
    /\ pc = "start"
    /\ completedTaskIds = {}
    /\ failedTaskIds = {}
    /\ taskResults = {}
    /\ taskStatuses = [t \in {} |-> "none"]
    /\ iterations = 0
    /\ readyTasks = <<>>
    /\ attempt = 0
    /\ lastError = NullError
    /\ result = [success |-> FALSE, error |-> NullError]
    /\ events = <<>>
    /\ returned = [pending |-> TRUE]
    /\ attempts = [t \in AllIds |-> 0]
    /\ failures = [t \in AllIds |-> 0]
    /\ cancelRequested = FALSE
    /\ firstRun = NoRun
    /\ history = <<>>
    /\ dispatched = [t \in AllIds |-> {}]
    /\ round = 0
    /\ oddPass = FALSE
    /\ skipped = {}
    /\ propagated = {}

InitRun == InitEngineRun /\ NoRouter

\* A run of one of the two engines over a plan the caller hands in.
Init ==
    /\ engine \in {"v1", "v2"}
    /\ streamCallback \in BOOLEAN
    /\ plan \in Plans
    /\ maxRetries = DefaultMaxRetries
    /\ fate = AnyFate
    /\ InitRun

\* Mutant: the cap is half the number of tasks.
maxIterations_Half == Len(plan) \div 2

\* const maxIterations = plan.tasks.length * 2
maxIterations == Len(plan) * IterationFactor

\* Mutant: the loop also ends as soon as a task has failed.
LoopCondition_StopsOnFailure ==
    /\ Cardinality(completedTaskIds) + Cardinality(failedTaskIds) < Len(plan)
    /\ (engine = "v2" => iterations < maxIterations)
    /\ failedTaskIds = {}

\* The condition of the while loop.
LoopCondition ==
    /\ Cardinality(completedTaskIds) + Cardinality(failedTaskIds) < Len(plan)
    /\ (engine = "v2" => iterations < maxIterations)

\* ---------------------------------------------------------------- actions
\* The head of executePlan / executePlanWithStreaming: the plan event.
Start ==
    /\ pc = "start"
    /\ engine \in {"v1", "v2"}
    /\ events' = Emit(streamCallback, events, RunEvent("plan"))
    /\ pc' = "loop"
    /\ UNCHANGED <<inputs, completedTaskIds, failedTaskIds, taskResults, taskStatuses,
                   iterations, readyTasks, attempt, lastError, result, returned,
                   attempts, failures, history, dispatched, round, oddPass, skipped,
                   propagated, cancelRequested, routerVars, firstRun>>

\* The while condition is false: the loop ends.
LoopExit ==
    /\ pc = "loop"
    /\ ~LoopCondition
    /\ pc' = "final"
    /\ UNCHANGED <<inputs, completedTaskIds, failedTaskIds, taskResults, taskStatuses,
                   iterations, readyTasks, attempt, lastError, result, events, returned,
                   attempts, failures, history, dispatched, round, oddPass, skipped,
                   propagated, cancelRequested, routerVars, firstRun>>

NextIterations == IF engine = "v2" THEN iterations + 1 ELSE iterations

\* An iteration whose ready list is empty while tasks are unresolved: the
\* tasks with a failed dependency are resolved, then `continue`.
Propagate ==
    /\ pc = "loop"
    /\ LoopCondition
    /\ getReadyTasks(plan, completedTaskIds, failedTaskIds) = <<>>
    /\ LET unresolved == unresolvedTasks(plan, completedTaskIds, failedTaskIds)
           st == PropagateFrom(unresolved, 1,
                     [completed |-> completedTaskIds, failed |-> failedTaskIds,
                      events |-> events, skipped |-> skipped,
                      propagated |-> propagated], streamCallback)
       IN  /\ Len(unresolved) > 0
           /\ completedTaskIds' = st.completed
           /\ failedTaskIds' = st.failed
           /\ events' = st.events
           /\ skipped' = st.skipped
           /\ propagated' = st.propagated
    /\ iterations' = NextIterations
    /\ oddPass' = ~oddPass
    /\ pc' = "loop"
    /\ UNCHANGED <<inputs, taskResults, taskStatuses, readyTasks, attempt, lastError,
                   result, returned, attempts, failures, history, dispatched, round,
                   cancelRequested, routerVars, firstRun>>

\* An iteration whose ready list is empty and no task is unresolved: `break`.
Break ==
    /\ pc = "loop"
    /\ LoopCondition
    /\ getReadyTasks(plan, completedTaskIds, failedTaskIds) = <<>>
    /\ Len(unresolvedTasks(plan, completedTaskIds, failedTaskIds)) = 0
    /\ iterations' = NextIterations
    /\ oddPass' = ~oddPass
    /\ pc' = "final"
    /\ UNCHANGED <<inputs, completedTaskIds, failedTaskIds, taskResults, taskStatuses,
                   readyTasks, attempt, lastError, result, events, returned, attempts,
                   failures, history, dispatched, round, skipped, propagated,
                   cancelRequested, routerVars, firstRun>>

\* An iteration with a ready list: the for-loop over it begins.
Dispatch ==
    /\ pc = "loop"
    /\ LoopCondition
    /\ LET ready == getReadyTasks(plan, completedTaskIds, failedTaskIds)
       IN  /\ Len(ready) > 0
           /\ readyTasks' = ready
           /\ dispatched' = [t \in AllIds |->
                               IF \E i \in 1..Len(ready) : ready[i] = t
                               THEN dispatched[t] \cup {round + 1} ELSE dispatched[t]]
    /\ round' = round + 1
    /\ iterations' = NextIterations
    /\ oddPass' = ~oddPass
    /\ attempt' = 0
    /\ lastError' = NullError
    /\ history' = <<>>
    /\ pc' = "exec"
    /\ UNCHANGED <<inputs, completedTaskIds, failedTaskIds, taskResults, taskStatuses,
                   result, events, returned, attempts, failures, skipped, propagated,
                   cancelRequested, routerVars, firstRun>>

\* ------------------------------------------------- executing a single task
\* What one attempt can end in: the summary is returned ("ok"), executeTool
\* returns success: false ("toolFail"), the tool-selection invokeLLM or its
\* JSON.parse throws ("throw"), the analysis invokeLLM throws ("throwLate").
Outcomes == {"ok", "toolFail", "throw", "throwLate"}

\* The outcomes the capability can have for the task: any, or the fixed one.
OutcomesOf(taskId) ==
    IF fate.steps[taskId] = "any" THEN Outcomes ELSE {fate.steps[taskId]}

\* attempt === maxRetries (and the negation of attempt < maxRetries)
IsLastAttempt(a, max) == a = max

\* Mutant: lastError is set only while it is null, so the first error stays.
NextLastError_KeepsFirst(prev, outcome, a) ==
    IF prev # NullError THEN prev
    ELSE IF outcome = "toolFail" THEN ErrorOf("tool", a)
    ELSE ErrorOf("exception", a)

\* lastError after an attempt that failed.
NextLastError(prev, outcome, a) ==
    IF outcome = "toolFail"
    THEN ErrorOf("tool", a)          \* lastError = toolResult.error || "Tool execution failed"
    ELSE ErrorOf("exception", a)     \* lastError = error.message

\* Mutant: the test attempt === 1 is inverted, so the first attempt streams
\* the retry notice and the retries stream task_start.
AttemptProgress_StartOnRetry(cb, evs, taskId, a, outcome) ==
    LET e0 == IF a > 1
              THEN Deliver(cb, evs, StepUpdate("task_start", taskId))
              ELSE Deliver(cb, evs, StepUpdate("task_progress", taskId))
        e1 == IF outcome = "throw"
              THEN e0
              ELSE Deliver(cb, e0, StepUpdate("task_progress", taskId))
    IN  IF outcome \in {"ok", "throwLate"}
        THEN Deliver(cb, e1, StepUpdate("task_progress", taskId))
        ELSE e1

\* Mutant: every attempt streams task_start, the retries too.
AttemptProgress_StartEveryAttempt(cb, evs, taskId, a, outcome) ==
    LET e0 == Deliver(cb, evs, StepUpdate("task_start", taskId))
        e1 == IF outcome = "throw"
              THEN e0
              ELSE Deliver(cb, e0, StepUpdate("task_progress", taskId))
    IN  IF outcome \in {"ok", "throwLate"}
        THEN Deliver(cb, e1, StepUpdate("task_progress", taskId))
        ELSE e1

\* The updates an attempt streams before it ends: retry notice or task_start,
\* then a task_progress per sub-step reached.
AttemptProgress(cb, evs, taskId, a, outcome) ==
    LET e0 == IF a > 1
              THEN Deliver(cb, evs, StepUpdate("task_progress", taskId))
              ELSE Deliver(cb, evs, StepUpdate("task_start", taskId))
        e1 == IF outcome = "throw"
              THEN e0
              ELSE Deliver(cb, e0, StepUpdate("task_progress", taskId))
    IN  IF outcome \in {"ok", "throwLate"}
        THEN Deliver(cb, e1, StepUpdate("task_progress", taskId))
        ELSE e1

\* The catch block on the last attempt streams task_error.
AttemptEvents(cb, evs, taskId, a, max, outcome) ==
    LET e == AttemptProgress(cb, evs, taskId, a, outcome)
    IN  IF outcome # "ok" /\ IsLastAttempt(a, max)
        THEN Deliver(cb, e, StepUpdate("task_error", taskId))
        ELSE e

SuccessResult(taskId) == [success |-> TRUE, output |-> taskId]

FailureResult(error) == [success |-> FALSE, error |-> error]

\* One pass of the for-loop of executeTaskWithRetry for the task at the head
\* of the ready list: attempt number attempt + 1.
Attempt ==
    /\ pc = "exec"
    /\ engine \in {"v2", "retry"}
    /\ attempt + 1 <= maxRetries
    /\ \E outcome \in OutcomesOf(Head(readyTasks)) :
         LET taskId == Head(readyTasks)
             a == attempt + 1
             ends == outcome = "ok" \/ IsLastAttempt(a, maxRetries)
         IN  /\ attempt' = a
             /\ attempts' = [attempts EXCEPT ![taskId] = @ + 1]
             /\ failures' = IF outcome = "ok" THEN failures
                             ELSE [failures EXCEPT ![taskId] = @ + 1]
             /\ history' = Append(history, outcome)
             /\ events' = AttemptEvents(streamCallback, events, taskId, a, maxRetries, outcome)
             /\ lastError' = IF outcome = "ok" THEN lastError
                             ELSE NextLastError(lastError, outcome, a)
             /\ result' = IF outcome = "ok" THEN SuccessResult(taskId)
                          ELSE IF ends THEN FailureResult(lastError')
                          ELSE result
             /\ pc' = IF ~ends THEN "exec"
                      ELSE IF engine = "retry" THEN "returned" ELSE "apply"
    /\ UNCHANGED <<inputs, completedTaskIds, failedTaskIds, taskResults, taskStatuses,
                   iterations, readyTasks, returned, dispatched, round, oddPass,
                   skipped, propagated, cancelRequested, routerVars, firstRun>>

\* The events executeTask (v1) streams: task_start, the progress reached, and
\* task_error from its catch block.
ExecuteTaskEvents(cb, evs, taskId, outcome) ==
    LET e0 == Deliver(cb, evs, StepUpdate("task_start", taskId))
        e1 == IF outcome = "throw"
              THEN e0
              ELSE Deliver(cb, e0, StepUpdate("task_progress", taskId))
        e2 == IF outcome \in {"ok", "throwLate"}
              THEN Deliver(cb, e1, StepUpdate("task_progress", taskId))
              ELSE e1
    IN  IF outcome # "ok"
        THEN Deliver(cb, e2, StepUpdate("task_error", taskId))
        ELSE e2

\* executeTask (v1) for the task at the head of the ready list: one attempt.
ExecuteTask ==
    /\ pc = "exec"
    /\ engine = "v1"
    /\ \E outcome \in OutcomesOf(Head(readyTasks)) :
         LET taskId == Head(readyTasks)
         IN  /\ attempt' = 1
             /\ attempts' = [attempts EXCEPT ![taskId] = @ + 1]
             /\ failures' = IF outcome = "ok" THEN failures
                             ELSE [failures EXCEPT ![taskId] = @ + 1]
             /\ history' = Append(history, outcome)
             /\ events' = ExecuteTaskEvents(streamCallback, events, taskId, outcome)
             /\ lastError' = IF outcome = "ok" THEN lastError
                             ELSE NextLastError(lastError, outcome, 1)
             /\ result' = IF outcome = "ok" THEN SuccessResult(taskId)
                          ELSE FailureResult(lastError')
             /\ pc' = "apply"
    /\ UNCHANGED <<inputs, completedTaskIds, failedTaskIds, taskResults, taskStatuses,
                   iterations, readyTasks, returned, dispatched, round, oddPass,
                   skipped, propagated, cancelRequested, routerVars, firstRun>>

\* taskStatuses.set(...) exists in executePlan (v1) only.
SetStatus(statuses, taskId, status) ==
    IF engine = "v1" THEN (taskId :> status) @@ statuses ELSE statuses

\* Mutant: the for-loop stops one id short of the end of the ready list.
ForLoopContinues_StopsShort(rest) == Len(rest) > 1

\* for (const taskId of readyTasks): the loop goes on while ids are left.
ForLoopContinues(rest) == Len(rest) > 0

\* Mutant: the output is stored whatever the result, also for a failed task.
ApplyResult_OutputOnFailure ==
    /\ pc = "apply"
    /\ LET taskId == Head(readyTasks)
       IN  /\ taskResults' = taskResults \cup {taskId}
           /\ IF result.success
              THEN /\ completedTaskIds' = completedTaskIds \cup {taskId}
                   /\ taskStatuses' = SetStatus(taskStatuses, taskId, "succeeded")
                   /\ events' = Emit(streamCallback, events,
                                     TaskEvent("task_complete", taskId))
                   /\ UNCHANGED failedTaskIds
              ELSE /\ failedTaskIds' = failedTaskIds \cup {taskId}
                   /\ taskStatuses' = SetStatus(taskStatuses, taskId, "failed")
                   /\ events' = Emit(streamCallback, events,
                                     TaskEvent("task_error", taskId))
                   /\ UNCHANGED completedTaskIds
    /\ readyTasks' = Tail(readyTasks)
    /\ attempt' = 0
    /\ lastError' = NullError
    /\ history' = <<>>
    /\ pc' = IF ForLoopContinues(Tail(readyTasks)) THEN "exec" ELSE "loop"
    /\ UNCHANGED <<inputs, iterations, result, returned, attempts, failures, dispatched,
                   round, oddPass, skipped, propagated, cancelRequested, routerVars,
                   firstRun>>

\* The body of the for-loop over the ready list after the task returned:
\* the result is folded into the sets and streamed.
ApplyResult ==
    /\ pc = "apply"
    /\ LET taskId == Head(readyTasks)
       IN  IF result.success
           THEN /\ completedTaskIds' = completedTaskIds \cup {taskId}
                /\ taskResults' = taskResults \cup {taskId}
                /\ taskStatuses' = SetStatus(taskStatuses, taskId, "succeeded")
                /\ events' = Emit(streamCallback, events, TaskEvent("task_complete", taskId))
                /\ UNCHANGED failedTaskIds
           ELSE /\ failedTaskIds' = failedTaskIds \cup {taskId}
                /\ taskStatuses' = SetStatus(taskStatuses, taskId, "failed")
                /\ events' = Emit(streamCallback, events, TaskEvent("task_error", taskId))
                /\ UNCHANGED <<completedTaskIds, taskResults>>
    /\ readyTasks' = Tail(readyTasks)
    /\ attempt' = 0
    /\ lastError' = NullError
    /\ history' = <<>>
    /\ pc' = IF ForLoopContinues(Tail(readyTasks)) THEN "exec" ELSE "loop"
    /\ UNCHANGED <<inputs, iterations, result, returned, attempts, failures, dispatched,
                   round, oddPass, skipped, propagated, cancelRequested, routerVars,
                   firstRun>>

\* Mutant: the run reports success only when no task has failed.
FinalOk_FailsOnFailedStep ==
    /\ pc = "final"
    /\ events' = Emit(streamCallback, events,
                      RunEvent(IF failedTaskIds = {} THEN "execution_complete"
                               ELSE "execution_error"))
    /\ returned' = [success |-> failedTaskIds = {}, taskResults |-> taskResults]
    /\ pc' = "done"
    /\ UNCHANGED <<inputs, completedTaskIds, failedTaskIds, taskResults, taskStatuses,
                   iterations, readyTasks, attempt, lastError, result, attempts,
                   failures, history, dispatched, round, oddPass, skipped, propagated,
                   cancelRequested, routerVars, firstRun>>

\* After the loop: the final analysis invokeLLM returns, execution_complete
\* is streamed and success: true is returned.
FinalOk ==
    /\ pc = "final"
    /\ fate.analysis \in {"any", "ok"}
    /\ events' = Emit(streamCallback, events, RunEvent("execution_complete"))
    /\ returned' = [success |-> TRUE, taskResults |-> taskResults]
    /\ pc' = "done"
    /\ UNCHANGED <<inputs, completedTaskIds, failedTaskIds, taskResults, taskStatuses,
                   iterations, readyTasks, attempt, lastError, result, attempts,
                   failures, history, dispatched, round, oddPass, skipped, propagated,
                   cancelRequested, routerVars, firstRun>>

\* Mutant: the exception is thrown after execution_complete was streamed.
FinalThrow_AfterComplete ==
    /\ pc = "final"
    /\ events' = Emit(streamCallback,
                      Emit(streamCallback, events, RunEvent("execution_complete")),
                      RunEvent("execution_error"))
    /\ returned' = [success |-> FALSE, error |-> "analysis"]
    /\ pc' = "done"
    /\ UNCHANGED <<inputs, completedTaskIds, failedTaskIds, taskResults, taskStatuses,
                   iterations, readyTasks, attempt, lastError, result, attempts,
                   failures, history, dispatched, round, oddPass, skipped, propagated,
                   cancelRequested, routerVars, firstRun>>

\* Mutant: there is no outer catch, the exception of the final analysis
\* reaches the caller and no result object is returned.
FinalThrow_Escapes ==
    /\ pc = "final"
    /\ returned' = [thrown |-> "analysis"]
    /\ pc' = "done"
    /\ UNCHANGED <<inputs, completedTaskIds, failedTaskIds, taskResults, taskStatuses,
                   iterations, readyTasks, attempt, lastError, result, events, attempts,
                   failures, history, dispatched, round, oddPass, skipped, propagated,
                   cancelRequested, routerVars, firstRun>>

\* After the loop: the final analysis invokeLLM throws; the outer catch
\* streams execution_error and returns success: false with the message.
FinalThrow ==
    /\ pc = "final"
    /\ fate.analysis \in {"any", "throw"}
    /\ events' = Emit(streamCallback, events, RunEvent("execution_error"))
    /\ returned' = [success |-> FALSE, error |-> "analysis"]
    /\ pc' = "done"
    /\ UNCHANGED <<inputs, completedTaskIds, failedTaskIds, taskResults, taskStatuses,
                   iterations, readyTasks, attempt, lastError, result, attempts,
                   failures, history, dispatched, round, oddPass, skipped, propagated,
                   cancelRequested, routerVars, firstRun>>

Next ==
    \/ Start
    \/ LoopExit
    \/ Propagate
    \/ Break
    \/ Dispatch
    \/ Attempt
    \/ ExecuteTask
    \/ ApplyResult
    \/ FinalOk
    \/ FinalThrow

Spec == Init /\ [][Next]_vars

\* ------------------------------------------ executeTaskWithRetry on its own
\* executeTaskWithRetry is exported: a caller hands it one task and any
\* maxRetries.
InitRetry ==
    /\ engine = "retry"
    /\ streamCallback \in BOOLEAN
    /\ plan \in PlansOfLength(1)
    /\ maxRetries \in 0..MaxAttempts
    /\ fate = AnyFate
    /\ InitRun

\* The call: the task is the one the for-loop will attempt.
CallRetry ==
    /\ pc = "start"
    /\ engine = "retry"
    /\ \E i \in 1..Len(plan) : readyTasks' = <<plan[i].id>>
    /\ pc' = "exec"
    /\ UNCHANGED <<inputs, completedTaskIds, failedTaskIds, taskResults, taskStatuses,
                   iterations, attempt, lastError, result, events, returned, attempts,
                   failures, history, dispatched, round, oddPass, skipped, propagated,
                   cancelRequested, routerVars, firstRun>>

\* The for-loop ends without having returned (no pass was made): the
\* return after the loop, error: lastError || "Unknown error".
ReturnAfterLoop ==
    /\ pc = "exec"
    /\ engine = "retry"
    /\ ~(attempt + 1 <= maxRetries)
    /\ result' = FailureResult(IF lastError = NullError THEN ErrorOf("unknown", 0)
                               ELSE lastError)
    /\ pc' = "returned"
    /\ UNCHANGED <<inputs, completedTaskIds, failedTaskIds, taskResults, taskStatuses,
                   iterations, readyTasks, attempt, lastError, events, returned,
                   attempts, failures, history, dispatched, round, oddPass, skipped,
                   propagated, cancelRequested, routerVars, firstRun>>

NextRetry ==
    \/ CallRetry
    \/ Attempt
    \/ ReturnAfterLoop

SpecRetry == InitRetry /\ [][NextRetry]_vars

\* ------------------------------------------------------- executePlan (v1)
InitV1 == Init /\ engine = "v1"

NextV1 ==
    \/ Start
    \/ LoopExit
    \/ Propagate
    \/ Break
    \/ Dispatch
    \/ ExecuteTask
    \/ ApplyResult
    \/ FinalOk
    \/ FinalThrow

\* The run is an async function the event loop keeps running: a step that
\* can be taken is taken.
SpecV1Fair == InitV1 /\ [][NextV1]_vars /\ WF_vars(NextV1)

\* ------------------------------------------- the client stops the stream
\* A streamed run of executePlanWithStreaming whose client may stop.
InitCancel == Init /\ engine = "v2" /\ streamCallback

\* stopStreaming of useStreamingExecution while the run is in flight: the
\* client closes its EventSource. Nothing on the server reads it.
stopStreaming ==
    /\ pc \notin {"start", "done"}
    /\ ~cancelRequested
    /\ cancelRequested' = TRUE
    /\ UNCHANGED <<inputs, pc, completedTaskIds, failedTaskIds, taskResults,
                   taskStatuses, iterations, readyTasks, attempt, lastError, result,
                   events, returned, attempts, failures, history, dispatched, round,
                   oddPass, skipped, propagated, routerVars, firstRun>>

NextCancel ==
    \/ Start
    \/ LoopExit
    \/ Propagate
    \/ Break
    \/ Dispatch
    \/ Attempt
    \/ ApplyResult
    \/ FinalOk
    \/ FinalThrow
    \/ stopStreaming

SpecCancel == InitCancel /\ [][NextCancel]_vars

\* --------------------------------------------- getReadyTasks on its own
\* getReadyTasks is exported: a caller hands it the tasks and any two sets
\* of ids of the plan.
InitReady ==
    /\ engine = "ready"
    /\ streamCallback = FALSE
    /\ plan \in Plans
    /\ maxRetries = DefaultMaxRetries
    /\ fate = AnyFate
    /\ pc = "start"
    /\ completedTaskIds \in SUBSET PlanIds(plan)
    /\ failedTaskIds \in SUBSET PlanIds(plan)
    /\ taskResults = {}
    /\ taskStatuses = [t \in {} |-> "none"]
    /\ iterations = 0
    /\ readyTasks = <<>>
    /\ attempt = 0
    /\ lastError = NullError
    /\ result = [success |-> FALSE, error |-> NullError]
    /\ events = <<>>
    /\ returned = [pending |-> TRUE]
    /\ attempts = [t \in AllIds |-> 0]
    /\ failures = [t \in AllIds |-> 0]
    /\ cancelRequested = FALSE
    /\ firstRun = NoRun
    /\ NoRouter
    /\ history = <<>>
    /\ dispatched = [t \in AllIds |-> {}]
    /\ round = 0
    /\ oddPass = FALSE
    /\ skipped = {}
    /\ propagated = {}

\* The call: the list returned is kept in readyTasks, nothing else changes.
CallGetReadyTasks ==
    /\ pc = "start"
    /\ engine = "ready"
    /\ readyTasks' = getReadyTasks(plan, completedTaskIds, failedTaskIds)
    /\ pc' = "returned"
    /\ UNCHANGED <<inputs, completedTaskIds, failedTaskIds, taskResults, taskStatuses,
                   iterations, attempt, lastError, result, events, returned, attempts,
                   failures, history, dispatched, round, oddPass, skipped, propagated,
                   cancelRequested, routerVars, firstRun>>

NextReady == CallGetReadyTasks

SpecReady == InitReady /\ [][NextReady]_vars

\* ------------------------------------------------------------ the router
\* startExecution and getExecution of the planner router and the exported
\* handleStreamingExecution, called for one execution of the executions
\* table. The run of the plan is one call whose result is any result the
\* engine can return.
Endpoints == {"startExecution", "getExecution", "handleStreamingExecution"}

Users == 1..MaxUsers

NoResponse == [kind |-> "none"]

NoRow == [userId |-> 0, status |-> "none"]

Handler(endpoint, userId) ==
    [endpoint |-> endpoint, userId |-> userId, at |-> "idle", row |-> NoRow,
     success |-> FALSE, wrote |-> FALSE, ran |-> FALSE, response |-> NoResponse]

InitRouter ==
    /\ engine = "router"
    /\ streamCallback = FALSE
    /\ plan = <<>>
    /\ maxRetries = DefaultMaxRetries
    /\ fate = AnyFate
    /\ InitEngineRun
    /\ execution \in [userId : Users, status : {"planning"}]
    /\ handlers \in [1..MaxCalls -> {Handler(e, u) : e \in Endpoints, u \in Users}]
    /\ planRuns = 0

\* Mutant: the userId of the row is not compared with the caller's.
IsOwner_Anyone(row, userId) == TRUE

\* The negation of execution.userId !== ctx.user.id.
IsOwner(row, userId) == row.userId = userId

\* What a caller who is not the owner gets: the TRPCError of the tRPC
\* procedures, status 403 of handleStreamingExecution.
Forbidden(endpoint) ==
    IF endpoint = "handleStreamingExecution" THEN [kind |-> "403"]
    ELSE [kind |-> "error"]

\* const execution = await getExecution(executionId), then the userId test.
ReadExecution(c) ==
    /\ handlers[c].at = "idle"
    /\ LET h == handlers[c]
       IN  handlers' = [handlers EXCEPT ![c] =
             IF IsOwner(execution, h.userId)
             THEN [h EXCEPT !.row = execution, !.at = "authorized"]
             ELSE [h EXCEPT !.row = execution, !.at = "returned",
                            !.response = Forbidden(h.endpoint)]]
    /\ UNCHANGED <<engineVars, execution, planRuns>>

\* getExecution: the tasks are read and the row is returned with them.
ReturnDetails(c) ==
    /\ handlers[c].at = "authorized"
    /\ handlers[c].endpoint = "getExecution"
    /\ LET h == handlers[c]
       IN  handlers' = [handlers EXCEPT ![c] =
             [h EXCEPT !.at = "returned",
                       !.response = [kind |-> "execution", status |-> h.row.status]]]
    /\ UNCHANGED <<engineVars, execution, planRuns>>

\* await updateExecutionStatus(executionId, "executing")
MarkExecuting(c) ==
    /\ handlers[c].at = "authorized"
    /\ handlers[c].endpoint # "getExecution"
    /\ execution' = [execution EXCEPT !.status = "executing"]
    /\ handlers' = [handlers EXCEPT ![c] = [@ EXCEPT !.at = "marked", !.wrote = TRUE]]
    /\ UNCHANGED <<engineVars, planRuns>>

\* executePlanWithStreaming(executionId, plan, ...) is called.
CallEngine(c) ==
    /\ handlers[c].at = "marked"
    /\ planRuns' = planRuns + 1
    /\ handlers' = [handlers EXCEPT ![c] = [@ EXCEPT !.at = "running", !.ran = TRUE]]
    /\ UNCHANGED <<engineVars, execution>>

\* The run returns: success is either value the engine can return.
EngineReturns(c) ==
    /\ handlers[c].at = "running"
    /\ \E ok \in BOOLEAN :
         handlers' = [handlers EXCEPT ![c] = [@ EXCEPT !.at = "ran", !.success = ok]]
    /\ UNCHANGED <<engineVars, execution, planRuns>>

\* updateExecutionStatus(executionId, "completed" | "failed", ...) and the
\* answer: the result of startExecution, res.end() of the stream.
MarkFinal(c) ==
    /\ handlers[c].at = "ran"
    /\ execution' = [execution EXCEPT !.status =
                        IF handlers[c].success THEN "completed" ELSE "failed"]
    /\ LET h == handlers[c]
       IN  handlers' = [handlers EXCEPT ![c] =
             [h EXCEPT !.at = "returned",
                       !.response = IF h.endpoint = "startExecution"
                                    THEN [kind |-> "result", success |-> h.success]
                                    ELSE [kind |-> "end"]]]
    /\ UNCHANGED <<engineVars, planRuns>>

NextRouter ==
    \E c \in DOMAIN handlers :
        \/ ReadExecution(c)
        \/ ReturnDetails(c)
        \/ MarkExecuting(c)
        \/ CallEngine(c)
        \/ EngineReturns(c)
        \/ MarkFinal(c)

SpecRouter == InitRouter /\ [][NextRouter]_vars

\* ------------------------------------------------ vocabulary of the claims
UniqueIds(p) == \A i, j \in 1..Len(p) : p[i].id = p[j].id => i = j

NoDangling(p) == \A i \in 1..Len(p) : p[i].dependencies \subseteq PlanIds(p)

DepsOfIds(p, ids) == UNION {p[i].dependencies : i \in {j \in 1..Len(p) : p[j].id \in ids}}

RECURSIVE DepsClosure(_, _, _)
\* The ids reached from ids along dependencies in at most k further steps.
DepsClosure(p, ids, k) ==
    IF k = 0 THEN ids ELSE DepsClosure(p, ids \cup DepsOfIds(p, ids), k - 1)

Acyclic(p) ==
    \A i \in 1..Len(p) : p[i].id \notin DepsClosure(p, p[i].dependencies, Len(p))

ValidPlan(p) == UniqueIds(p) /\ NoDangling(p) /\ Acyclic(p)

Resolved == completedTaskIds \cup failedTaskIds

IsStartOf(e, t) == e.type = "task_start" /\ e.taskId = t

IsTerminalOf(e, t) == e.type \in {"task_complete", "task_error"} /\ e.taskId = t

Started(t) == \E k \in 1..Len(events) : IsStartOf(events[k], t)

LoopEnded == pc \in {"final", "done"}

\* C1: in a run over a valid plan (unique ids, no dangling dependency, no
\* cycle), when step B lists step A as a dependency, B is attempted only once
\* A is resolved, and B's task_start comes after a terminal event (task_complete
\* or task_error) of A and before none.
C1_TopologicalOrder ==
    ValidPlan(plan) =>
        \A i \in 1..Len(plan) : \A a \in plan[i].dependencies :
            LET b == plan[i].id
            IN  /\ attempts[b] > 0 => a \in Resolved
                /\ \A k \in 1..Len(events) :
                     IsStartOf(events[k], b) =>
                        /\ \E j \in 1..(k - 1) : IsTerminalOf(events[j], a)
                        /\ \A j \in (k + 1)..Len(events) : ~IsTerminalOf(events[j], a)

\* A finished run over a valid plan in which a step with a dependency was started.
C1_Witness ==
    /\ ValidPlan(plan)
    /\ streamCallback
    /\ pc = "done"
    /\ \E i \in 1..Len(plan) : plan[i].dependencies # {} /\ Started(plan[i].id)

\* C2: in a run over a plan with unique ids, a non-optional step with a failed
\* dependency is never attempted and no task_start is streamed for it; once the
\* loop has ended it is in the failed set, not in the completed set, and a
\* task_error was streamed for it.
C2_RequiredDependentFails ==
    UniqueIds(plan) =>
        \A i \in 1..Len(plan) :
            (~plan[i].optional /\ hasMissingDeps(plan[i], failedTaskIds)) =>
                LET t == plan[i].id
                IN  /\ attempts[t] = 0
                    /\ ~Started(t)
                    /\ LoopEnded =>
                         /\ t \in failedTaskIds
                         /\ t \notin completedTaskIds
                         /\ streamCallback =>
                              \E k \in 1..Len(events) :
                                 events[k] = TaskEvent("task_error", t)

\* A finished run in which the propagation failed a non-optional step.
C2_Witness ==
    /\ UniqueIds(plan)
    /\ streamCallback
    /\ pc = "done"
    /\ \E i \in 1..Len(plan) :
         /\ ~plan[i].optional
         /\ hasMissingDeps(plan[i], failedTaskIds)
         /\ plan[i].id \in propagated

\* C3: in a run over a plan with unique ids, an optional step with a failed
\* dependency is never attempted, is never in the failed set and gets no
\* task_error; once the loop has ended it was resolved by the skip branch and a
\* task_complete was streamed for it.
C3_OptionalDependentSkipped ==
    UniqueIds(plan) =>
        \A i \in 1..Len(plan) :
            (plan[i].optional /\ hasMissingDeps(plan[i], failedTaskIds)) =>
                LET t == plan[i].id
                IN  /\ attempts[t] = 0
                    /\ ~Started(t)
                    /\ t \notin failedTaskIds
                    /\ \A k \in 1..Len(events) : events[k] # TaskEvent("task_error", t)
                    /\ LoopEnded =>
                         /\ t \in skipped
                         /\ streamCallback =>
                              \E k \in 1..Len(events) :
                                 events[k] = TaskEvent("task_complete", t)

\* A finished run in which the propagation skipped an optional step.
C3_Witness ==
    /\ UniqueIds(plan)
    /\ streamCallback
    /\ pc = "done"
    /\ \E i \in 1..Len(plan) :
         /\ plan[i].optional
         /\ hasMissingDeps(plan[i], failedTaskIds)
         /\ plan[i].id \in skipped

\* C4: in a run over a valid plan, a step with a dependency that was resolved
\* Skipped or Failed is blocked: it is never attempted.
C4_SkippedDependencyBlocks ==
    ValidPlan(plan) =>
        \A i \in 1..Len(plan) :
            (\E d \in plan[i].dependencies : d \in skipped \cup failedTaskIds) =>
                attempts[plan[i].id] = 0

\* C5: a plan with a duplicate id, a dangling dependency or a cycle is rejected
\* before any step runs: no step is attempted, none is resolved, no task_start
\* is streamed, and the run does not report success.
C5_InvalidPlanRejected ==
    ~ValidPlan(plan) =>
        /\ \A t \in AllIds : attempts[t] = 0 /\ ~Started(t)
        /\ Resolved = {}
        /\ pc = "done" => ~returned.success

\* C6: the run terminates: it ends having streamed execution_complete or
\* execution_error.
C6_RunTerminates == <>(pc = "done")

\* C7: a run that leaves the loop with unresolved steps remaining (a stall, or
\* the round cap reached) is aborted: it returns success: false and streams
\* execution_error, never execution_complete.
C7_StallAborts ==
    (pc = "done" /\ Len(unresolvedTasks(plan, completedTaskIds, failedTaskIds)) > 0) =>
        /\ ~returned.success
        /\ \A k \in 1..Len(events) : events[k] # RunEvent("execution_complete")

\* The outcome of the last attempt fixes the error message of that attempt.
ErrorOfAttempt(outcome, a) ==
    [kind |-> IF outcome = "toolFail" THEN "tool" ELSE "exception", attempt |-> a]

\* C8: executeTaskWithRetry called with maxRetries >= 1 returns a failure only
\* after exactly maxRetries attempts, all failed, with the error of the last of
\* them; it returns a success after exactly k attempts, k <= maxRetries, where
\* attempt k is the first that succeeded.
C8_RetryExhaustion ==
    (engine = "retry" /\ pc = "returned" /\ maxRetries >= 1) =>
        LET t == Head(readyTasks)
            n == Len(history)
        IN  /\ attempts[t] = n
            /\ attempt = n
            /\ \A k \in 1..(n - 1) : history[k] # "ok"
            /\ ~result.success =>
                 /\ n = maxRetries
                 /\ history[n] # "ok"
                 /\ result.error = ErrorOfAttempt(history[n], n)
            /\ result.success =>
                 /\ n <= maxRetries
                 /\ history[n] = "ok"

\* A call with the largest maxRetries that failed, its attempts failing in
\* different ways.
C8_Witness ==
    /\ engine = "retry"
    /\ pc = "returned"
    /\ maxRetries = MaxAttempts
    /\ ~result.success
    /\ history[1] = "toolFail"
    /\ history[Len(history)] = "throw"

\* C9: with the default configuration a step whose attempts all fail is
\* resolved Failed after the first attempt and 2 retries.
C9_TwoRetriesByDefault ==
    (engine = "v2" /\ pc = "apply" /\ ~result.success) =>
        attempt = 1 + DocumentedRetries

\* C10: while a round is under way every step dispatched in an earlier round
\* has been attempted and resolved, and the ready list of a round is used up
\* when the loop head is reached again; in the stream no terminal event of a
\* step of an earlier round follows a task_start of a step of a later round.
C10_RoundBarrier ==
    /\ \A t \in AllIds : \A r \in dispatched[t] :
         (r < round \/ pc \in {"loop", "final", "done"}) =>
            (attempts[t] > 0 /\ t \in Resolved)
    /\ pc \in {"loop", "final", "done"} => readyTasks = <<>>
    /\ \A j, k \in 1..Len(events) :
         (/\ j < k
          /\ events[j].type = "task_start"
          /\ events[k].type \in {"task_complete", "task_error"}) =>
            \A rj \in dispatched[events[j].taskId] :
               \A rk \in dispatched[events[k].taskId] : rj <= rk

\* A second round has started a step after a first round of two steps.
C10_Witness ==
    /\ streamCallback
    /\ round = 2
    /\ \E t \in AllIds : 2 \in dispatched[t] /\ Started(t)
    /\ Cardinality({t \in AllIds : 1 \in dispatched[t]}) = 2

\* ------------------------------------------------------------------ C11
IsRunLevel(e) == e.type \in {"execution_complete", "execution_error"}

IsStepEvent(e) ==
    e.type \in {"task_start", "task_progress", "task_complete", "task_error"}

\* C11: in a streamed run the first event is the plan event and no other
\* plan event follows; no run-level event is streamed before the run has
\* returned; once it has returned, exactly one run-level event
\* (execution_complete or execution_error) was streamed, it is the last
\* event, and every event between the first and the last is a step event.
C11_RunLevelOrdering ==
    streamCallback =>
        /\ events # <<>> => events[1] = RunEvent("plan")
        /\ \A k \in 2..Len(events) : events[k].type # "plan"
        /\ pc # "done" => \A k \in 1..Len(events) : ~IsRunLevel(events[k])
        /\ pc = "done" =>
              /\ Len(events) >= 2
              /\ IsRunLevel(events[Len(events)])
              /\ \A k \in 2..(Len(events) - 1) : IsStepEvent(events[k])
              /\ returned.success = (events[Len(events)].type = "execution_complete")

\* A streamed run that returned after the final analysis threw, with step
\* events between the plan event and execution_error.
C11_Witness ==
    /\ streamCallback
    /\ pc = "done"
    /\ Len(events) >= 4
    /\ events[Len(events)].type = "execution_error"

\* ------------------------------------------------------------------ C12
IsAfterStart(e) == e.type \in {"task_progress", "task_complete", "task_error"}

PrecededByStart(k) ==
    \E j \in 1..(k - 1) : IsStartOf(events[j], events[k].taskId)

\* C12: every task_progress, task_complete and task_error event of a step
\* comes after a task_start event of the same step.
C12_StartPrecedesAll ==
    \A k \in 1..Len(events) : IsAfterStart(events[k]) => PrecededByStart(k)

\* C12, amended: in a run over a plan with unique ids every task_progress,
\* task_complete and task_error event of a step comes after a task_start
\* event of the same step, except the one terminal event (task_complete or
\* task_error) of a step that the failure propagation resolved: that step
\* was never attempted and has no task_start and no task_progress at all.
C12_StartPrecedesExecuted ==
    UniqueIds(plan) =>
      \A k \in 1..Len(events) :
        IsAfterStart(events[k]) =>
            LET t == events[k].taskId
            IN  \/ PrecededByStart(k)
                \/ /\ t \in skipped \cup propagated
                   /\ attempts[t] = 0
                   /\ ~Started(t)
                   /\ events[k].type = (IF t \in skipped THEN "task_complete"
                                        ELSE "task_error")
                   /\ \A j \in 1..Len(events) :
                        (IsAfterStart(events[j]) /\ events[j].taskId = t) => j = k

\* A streamed run that returned, in which one step was attempted more than
\* once and another was resolved by the failure propagation.
C12_Witness ==
    /\ UniqueIds(plan)
    /\ streamCallback
    /\ pc = "done"
    /\ \E t \in AllIds : attempts[t] > 1 /\ Started(t)
    /\ skipped \cup propagated # {}

\* ------------------------------------------------------------------ C13
NoDependencies(p) == \A i \in 1..Len(p) : p[i].dependencies = {}

\* C13: in a run over a plan with unique ids none of whose steps has a
\* dependency, the first ready list holds every step, so every step is
\* dispatched in round 1; when the for-loop over that list has ended every
\* step was attempted, has its task_start streamed and is resolved, and no
\* second round is dispatched and nothing is left to the propagation.
C13_IndependentStepsOneRound ==
    (UniqueIds(plan) /\ NoDependencies(plan)) =>
        /\ round <= 1
        /\ skipped \cup propagated = {}
        /\ round = 1 => \A t \in PlanIds(plan) : dispatched[t] = {1}
        /\ (round = 1 /\ pc \in {"loop", "final", "done"}) =>
              /\ Resolved = PlanIds(plan)
              /\ \A t \in PlanIds(plan) :
                    /\ attempts[t] >= 1
                    /\ streamCallback => Started(t)

\* A streamed run over MaxTasks independent steps whose first round has ended.
C13_Witness ==
    /\ UniqueIds(plan)
    /\ NoDependencies(plan)
    /\ Len(plan) = MaxTasks
    /\ streamCallback
    /\ round = 1
    /\ pc = "loop"
    /\ failedTaskIds # {}

\* ------------------------------------------------------------------ C14
\* A is step 1, B is step 2 and C is step 3.
ScenarioPlan ==
    << [id |-> 1, dependencies |-> {}, optional |-> FALSE],
       [id |-> 2, dependencies |-> {1}, optional |-> FALSE],
       [id |-> 3, dependencies |-> {1}, optional |-> TRUE] >>

\* No attempt of A or B has failed and every attempt of C has failed.
ScenarioBehaviour ==
    /\ failures[1] = 0
    /\ failures[2] = 0
    /\ failures[3] = attempts[3]

AttemptBudget == IF engine = "v2" THEN maxRetries ELSE 1

HasOutput(r, t) == "taskResults" \in DOMAIN r /\ t \in r.taskResults

\* C15: when the run has returned success: false, the returned result holds
\* the reason and the output of every step that had succeeded.
C15_PartialOutputsOnAbort ==
    (pc = "done" /\ ~returned.success) =>
        /\ "error" \in DOMAIN returned
        /\ \A t \in taskResults : HasOutput(returned, t)

\* ------------------------------------------------------------------ C16
\* The ids the task depends on, directly or through other steps.
AllDepsOf(p, task) == DepsClosure(p, task.dependencies, Len(p))

\* C16: in a run over a valid plan, once the loop has ended every step none
\* of whose direct or transitive dependencies is in the failed set was
\* attempted and is resolved by its own result (not by the propagation), and
\* a terminal event was streamed for it.
C16_GracefulDegradation ==
    (ValidPlan(plan) /\ LoopEnded) =>
        \A i \in 1..Len(plan) :
            (AllDepsOf(plan, plan[i]) \cap failedTaskIds = {}) =>
                LET t == plan[i].id
                IN  /\ attempts[t] >= 1
                    /\ t \in Resolved
                    /\ t \notin skipped \cup propagated
                    /\ (t \in completedTaskIds) = (t \in taskResults)
                    /\ streamCallback =>
                          \E k \in 1..Len(events) : IsTerminalOf(events[k], t)

\* A returned run over a valid plan in which a step failed in round 1 and a
\* step that does not depend on it was attempted in a later round.
C16_Witness ==
    /\ ValidPlan(plan)
    /\ pc = "done"
    /\ \E f \in failedTaskIds :
         /\ dispatched[f] = {1}
         /\ \E i \in 1..Len(plan) :
              /\ f \notin AllDepsOf(plan, plan[i])
              /\ dispatched[plan[i].id] = {2}
              /\ attempts[plan[i].id] >= 1

\* ------------------------------------------------------------------ C17
IsStructured(r) ==
    /\ "success" \in DOMAIN r
    /\ r.success \in BOOLEAN
    /\ IF r.success THEN "taskResults" \in DOMAIN r ELSE "error" \in DOMAIN r

\* C17: whatever the attempts of the steps did (returned, returned a tool
\* failure or threw), the call of a step hands the engine a result with a
\* boolean success field, and when the run is over the caller holds an
\* object with a boolean success field, with the outputs when it is true and
\* the error when it is false.
C17_StructuredResult ==
    /\ pc = "apply" =>
          /\ result.success \in BOOLEAN
          /\ history # <<>>
          /\ result.success = (history[Len(history)] = "ok")
    /\ pc = "done" => IsStructured(returned)

\* A returned run over a valid plan in which an attempt of a step failed and
\* the final analysis threw.
C17_Witness ==
    /\ ValidPlan(plan)
    /\ pc = "done"
    /\ \E t \in PlanIds(plan) : failures[t] >= 1
    /\ ~returned.success
    /\ returned.error = "analysis"

\* ------------------------------------------------------------------ C18
InList(seq, t) == \E k \in 1..Len(seq) : seq[k] = t

\* What one step of the run may do to the steps that are already resolved.
TerminalKept ==
    /\ completedTaskIds \subseteq completedTaskIds'
    /\ failedTaskIds \subseteq failedTaskIds'
    /\ skipped \subseteq skipped'
    /\ \A t \in Resolved :
         /\ t \in completedTaskIds => t \notin failedTaskIds'
         /\ t \in failedTaskIds => t \notin completedTaskIds'
         /\ t \in skipped <=> t \in skipped'
         /\ attempts'[t] = attempts[t]
         /\ dispatched'[t] = dispatched[t]
         /\ ~InList(getReadyTasks(plan, completedTaskIds', failedTaskIds'), t)

\* C18: in a run over a plan with unique ids, no step of the run takes an
\* id out of the completed, failed or skipped set or moves it from one to
\* another, and a resolved step is never returned by getReadyTasks, never
\* put on a ready list and never attempted again.
C18_TerminalIsFinal == [][UniqueIds(plan) => TerminalKept]_vars

\* A second round is running while a step of an earlier round is resolved
\* and another was resolved by the propagation.
C18_Witness ==
    /\ UniqueIds(plan)
    /\ round >= 2
    /\ pc = "exec"
    /\ \E t \in Resolved : dispatched[t] = {1}
    /\ skipped # {}

\* ------------------------------------------------------------------ C19
\* The positions of the tasks that are in neither set and have every
\* dependency in the completed set.
ReadyPositions ==
    {i \in 1..Len(plan) :
        /\ plan[i].id \notin completedTaskIds \cup failedTaskIds
        /\ plan[i].dependencies \subseteq completedTaskIds}

C20_ContextComplete ==
    (ValidPlan(plan) /\ engine \in {"v1", "v2"} /\ pc = "exec") =>
        FindTask(plan, Head(readyTasks)).dependencies \subseteq taskResults

\* ------------------------------------------------------------------ C21
\* C21: once the client has asked to stop an in-flight run, no further
\* round is dispatched, and the run returns success: false with the reason
\* "cancelled".
C21_CooperativeCancellation ==
    [][cancelRequested =>
          /\ round' = round
          /\ pc' = "done" =>
                (~returned'.success /\ returned'.error = "cancelled")]_vars

\* ------------------------------------------------------------------ C22
\* C22: for a call of startExecution, getExecution or
\* handleStreamingExecution by a user who is not the owner of the execution,
\* the status of the row is never written, the plan is never run and the
\* answer holds no data of the execution: it is the error answer or none yet.
C22_Authorization ==
    \A c \in DOMAIN handlers :
        handlers[c].userId # execution.userId =>
            /\ ~handlers[c].wrote
            /\ ~handlers[c].ran
            /\ handlers[c].response \in {NoResponse, Forbidden(handlers[c].endpoint)}
            /\ handlers[c].at \in {"idle", "returned"}

\* A call by another user was refused after the owner's call had started
\* the run, and the row still says executing.
C22_Witness ==
    \E c, d \in DOMAIN handlers :
        /\ handlers[c].userId # execution.userId
        /\ handlers[c].at = "returned"
        /\ handlers[c].endpoint = "startExecution"
        /\ handlers[c].row.status = "executing"
        /\ handlers[d].userId = execution.userId
        /\ handlers[d].at = "running"

\* ------------------------------------------------------------------ C23
StartsOf(t) == {k \in 1..Len(events) : IsStartOf(events[k], t)}

EventsOf(t) ==
    {k \in 1..Len(events) : IsStepEvent(events[k]) /\ events[k].taskId = t}

\* C23: in a streamed run over a plan with unique ids, a step that was
\* attempted, however many times, has exactly one task_start event, and it
\* is the first event of the step; a step that was not attempted has none.
C23_OneTaskStart ==
    (UniqueIds(plan) /\ streamCallback) =>
        \A t \in AllIds :
            IF attempts[t] >= 1
            THEN /\ Cardinality(StartsOf(t)) = 1
                 /\ \A s \in StartsOf(t) : \A k \in EventsOf(t) : s <= k
            ELSE StartsOf(t) = {}

\* A streamed run in which a step was attempted twice and has ended.
C23_Witness ==
    /\ UniqueIds(plan)
    /\ streamCallback
    /\ pc = "done"
    /\ \E t \in AllIds : attempts[t] = 2 /\ StartsOf(t) # {}

\* ------------------------------------------------------------------ C24
TerminalsOf(t) == {k \in 1..Len(events) : IsTerminalOf(events[k], t)}

\* C24: in a streamed run over a plan with unique ids, every resolved step
\* has exactly one terminal event (one task_complete or one task_error) once
\* the for-loop has moved on from it.
C24_OneTerminalEvent ==
    (UniqueIds(plan) /\ streamCallback /\ pc \in {"loop", "final", "done"}) =>
        \A t \in Resolved : Cardinality(TerminalsOf(t)) = 1

\* ------------------------------------------------------------------ C25
\* What one step of executePlanWithStreaming does to the count of resolved
\* steps and to the loop counter.
LoopProgress ==
    /\ (pc = "loop" /\ pc' = "loop") =>
          Cardinality(Resolved') > Cardinality(Resolved)
    /\ pc = "apply" => Cardinality(Resolved') = Cardinality(Resolved) + 1
    /\ pc' = "loop" => iterations' <= Cardinality(Resolved')
    /\ (pc = "loop" /\ pc' = "final") =>
          /\ Resolved = PlanIds(plan)
          /\ iterations' = iterations
          /\ iterations < maxIterations

\* C25: in a run of executePlanWithStreaming over a valid plan, an
\* iteration with an empty ready list resolves at least one step through the
\* propagation, every step of a ready list is resolved when it returns, the
\* loop counter never exceeds the number of resolved steps, and the loop
\* ends through its condition with every step resolved and the counter
\* below the cap, never through break.
C25_ProgressOnValidPlans == [][(ValidPlan(plan) /\ engine = "v2") => LoopProgress]_vars

\* The loop of executePlanWithStreaming over a valid plan of MaxTasks steps
\* has ended after a round of attempts and a propagation.
C25_Witness ==
    /\ ValidPlan(plan)
    /\ engine = "v2"
    /\ Len(plan) = MaxTasks
    /\ pc = "final"
    /\ round >= 1
    /\ skipped \cup propagated # {}

\* ------------------------------------------------------------------ C26
LastEventIs(type) == streamCallback => events[Len(events)].type = type

\* C26: a run that has returned either returned success: true with the
\* stored outputs and streamed execution_complete last, whatever the failed
\* set holds, or returned success: false with the message of the exception
\* of the final analysis and streamed execution_error last.
C26_SuccessFlagPolicy ==
    pc = "done" =>
        \/ /\ returned = [success |-> TRUE, taskResults |-> taskResults]
           /\ LastEventIs("execution_complete")
        \/ /\ returned = [success |-> FALSE, error |-> "analysis"]
           /\ LastEventIs("execution_error")

\* A streamed run returned success: true although a non-optional step that
\* was attempted is in the failed set.
C26_Witness ==
    /\ pc = "done"
    /\ streamCallback
    /\ returned.success
    /\ \E i \in 1..Len(plan) :
         /\ ~plan[i].optional
         /\ plan[i].id \in failedTaskIds
         /\ attempts[plan[i].id] >= 1

\* ------------------------------------------------------------------ C27
\* C27: in every state of a run over a plan with unique ids the completed
\* set and the failed set are disjoint, an output is stored only for a step
\* that was attempted, whose last attempt did not fail and that is completed
\* and not skipped, and no id was on the ready list of more than one round.
C27_ResolvedSetsConsistent ==
    UniqueIds(plan) =>
        /\ completedTaskIds \cap failedTaskIds = {}
        /\ taskResults \subseteq completedTaskIds
        /\ taskResults \cap (failedTaskIds \cup skipped \cup propagated) = {}
        /\ \A t \in taskResults : attempts[t] >= 1 /\ failures[t] < attempts[t]
        /\ \A t \in AllIds : Cardinality(dispatched[t]) <= 1

\* A run over a plan with unique ids that has ended with a step completed
\* with its output, a step failed and a step skipped.
C27_Witness ==
    /\ UniqueIds(plan)
    /\ pc = "done"
    /\ taskResults # {}
    /\ failedTaskIds # {}
    /\ skipped # {}

\* ------------------------------------------------------------------ C28
\* The same plan is run by executePlan and then by executePlanWithStreaming,
\* with a capability whose outcome is fixed per step and a final analysis
\* whose outcome is fixed.
FixedFates ==
    [steps : [AllIds -> Outcomes], analysis : {"ok", "throw"}]

InitAgree ==
    /\ engine = "v1"
    /\ streamCallback = FALSE
    /\ plan \in Plans
    /\ maxRetries = DefaultMaxRetries
    /\ fate \in {f \in FixedFates :
                   \A t \in AllIds \ PlanIds(plan) : f.steps[t] = "ok"}
    /\ InitRun

\* How the run ended: the sets, the keys of the outputs and the flag.
RunSummary ==
    [completed |-> completedTaskIds, failed |-> failedTaskIds,
     results |-> taskResults, success |-> returned.success]

\* executePlan has returned: its end is kept and executePlanWithStreaming
\* is called with the same plan.
Rerun ==
    /\ pc = "done"
    /\ engine = "v1"
    /\ firstRun = NoRun
    /\ firstRun' = RunSummary
    /\ engine' = "v2"
    /\ pc' = "start"
    /\ completedTaskIds' = {}
    /\ failedTaskIds' = {}
    /\ taskResults' = {}
    /\ taskStatuses' = [t \in {} |-> "none"]
    /\ iterations' = 0
    /\ readyTasks' = <<>>
    /\ attempt' = 0
    /\ lastError' = NullError
    /\ result' = [success |-> FALSE, error |-> NullError]
    /\ events' = <<>>
    /\ returned' = [pending |-> TRUE]
    /\ attempts' = [t \in AllIds |-> 0]
    /\ failures' = [t \in AllIds |-> 0]
    /\ history' = <<>>
    /\ dispatched' = [t \in AllIds |-> {}]
    /\ round' = 0
    /\ oddPass' = FALSE
    /\ skipped' = {}
    /\ propagated' = {}
    /\ UNCHANGED <<streamCallback, plan, maxRetries, fate, cancelRequested, routerVars>>

NextAgree ==
    \/ Next
    \/ Rerun

SpecAgree == InitAgree /\ [][NextAgree]_vars

\* C28: when executePlanWithStreaming has returned for a valid plan that
\* executePlan ran before with the same fixed outcome per step and the same
\* outcome of the final analysis, its completed set, its failed set, the
\* keys of its outputs and its success flag are those of executePlan.
C28_EnginesAgree ==
    (ValidPlan(plan) /\ engine = "v2" /\ pc = "done" /\ firstRun # NoRun) =>
        firstRun = RunSummary

\* Both engines have run a valid plan of MaxTasks steps in which a step
\* failed, one was resolved by the propagation and one has its output.
C28_Witness ==
    /\ ValidPlan(plan)
    /\ engine = "v2"
    /\ pc = "done"
    /\ firstRun # NoRun
    /\ Len(plan) = MaxTasks
    /\ \E t \in failedTaskIds : attempts[t] = DefaultMaxRetries
    /\ skipped \cup propagated # {}
    /\ taskResults # {}

\* ------------------------------------------------------------------ C29
StatusMoves ==
    { <<"planning", "executing">>, <<"executing", "completed">>,
      <<"executing", "failed">> }

\* C29: whatever calls of startExecution and handleStreamingExecution are
\* made for an execution, every change of its status is planning ->
\* executing, executing -> completed or executing -> failed, and its plan
\* is run at most once.
C29_StatusLifecycle ==
    [][/\ execution'.status # execution.status =>
            <<execution.status, execution'.status>> \in StatusMoves
       /\ planRuns' <= 1]_vars

\* ------------------------------------------------------------------ C30
\* C30: every update the caller's callback has received during a run of
\* executePlan or executePlanWithStreaming carries the executionId of the
\* run, never the placeholder.
C30_EventsCarryExecutionId ==
    engine \in {"v1", "v2"} =>
        \A k \in 1..Len(events) :
            /\ events[k].executionId = ExecutionId
            /\ events[k].executionId # PlaceholderId

\* A streamed run has ended in which the step runner streamed a retry
\* notice and a task_error.
C30_Witness ==
    /\ engine = "v2"
    /\ streamCallback
    /\ pc = "done"
    /\ \E t \in AllIds :
         /\ attempts[t] = DefaultMaxRetries
         /\ t \in failedTaskIds
         /\ Cardinality(TerminalsOf(t)) = 2

====
